---- MODULE Spec2Model ----
(***************************************************************************)
(* FitCheck: the multi-pointer gesture engine of the sticker canvas        *)
(* (StickerCanvas: handlePointerDown / handlePointerMove / handlePointerUp)*)
(* together with the owning App state it reads and writes (clothingItems,  *)
(* selectedItemId, handleStickerChange, handleLayerChange, upload, the     *)
(* size and rotation sliders, delete, the click on the background), and    *)
(* the image generation started by the Generate button (handleGenerate).   *)
(*                                                                         *)
(* Numbers.  JavaScript numbers are IEEE doubles; the model uses fixed     *)
(* point integers:                                                         *)
(*   coordinates  : pixels                                                 *)
(*   distances    : 1/100 pixel         (DistOne  = 1 px)                  *)
(*   angles       : 1/100000 radian     (Pi       = 314159)                *)
(*   scale        : 1/1000              (ScaleOne = 1.0, MinScale = 0.1)   *)
(*   rotation     : 1/100 degree                                           *)
(* Infinity and NaN are two numbers no computation of a run reaches.       *)
(*                                                                         *)
(* Events.  The handlers run to completion one after the other; a React    *)
(* state update made by one event is visible to the next.  The host        *)
(* delivers each pointer's events in the order down, move*, up | cancel.   *)
(* The place of a pointer-down (body or handle, which garment) is an input *)
(* of the event; the container's bounding rect does not change in a run.   *)
(* An item record keeps the fields the gesture code reads or writes        *)
(* (id, x, y, scale, rotation, zIndex).                                    *)
(***************************************************************************)
EXTENDS Integers, Sequences, FiniteSets, TLC

\* ---------------------------------------------------------------- bounds
MaxPointers == 3      \* distinct physical pointers (fingers / mouse)
MaxItems    == 2      \* garments uploaded in a run
MaxEvents   == 5      \* events (of any kind) handled in a run
MaxLayerItems == 3    \* garments on the canvas when layering is examined

PointerIds == 1..MaxPointers
ItemIds    == 1..MaxItems

\* --------------------------------------------------- program constants
InitialX     == 150       \* handleClothingUpload: x: 150
InitialY     == 150       \* handleClothingUpload: y: 150
ScaleOne     == 1000      \* handleClothingUpload: scale: 1
InitialRot   == 0         \* handleClothingUpload: rotation: 0
MinScale     == 100       \* Math.max(0.1, ...)
DistOne      == 100       \* the 1 of `state.startDist || 1`
Pi           == 314159    \* Math.PI
HalfTurnDeg  == 180       \* the 180 of (180 / Math.PI)
BaseTime     == 1000      \* first value of Date.now() seen by an upload
NoId         == 0         \* selectedItemId: null
Undefined    == -1000000  \* startDist?/startAngle? left out of the snapshot
Infinity     == 2000000000   \* x / 0 for x > 0
NaN          == -2000000000  \* 0 / 0

\* Screen position of the container's top-left corner
\* (containerRef.current.getBoundingClientRect()).
ContainerRects == { [left |-> 10, top |-> 20] }

\* Screen positions a pointer event can report.  (160,170) is the screen
\* centre of a freshly uploaded garment.
Positions == { [x |-> 160, y |-> 170], [x |-> 162, y |-> 170],
               [x |-> 160, y |-> 172] }

VARIABLES
  items,           \* App state.clothingItems (array order kept)
  selectedItemId,  \* App state.selectedItemId (NoId = null)
  clock,           \* Date.now()
  containerRect,   \* bounding rect of the canvas container
  activePointers,  \* activePointers.current : Map in insertion order
  gestureState,    \* gestureState.current (type "NONE" = null)
  emitted,         \* onStickerChange calls made by the last event
  usedPtrs,        \* pointer records the last move computed from
  lastEvent,       \* the event handled last
  downBy,          \* pointer whose pointer-down started the live gesture
  replay,          \* first move handled under the live snapshot
  prior,           \* the other garment whose snapshot the live one replaced
  held,            \* pointers the host reported down and not yet lifted
  events,          \* events handled so far
  modelImage,      \* state.modelImage (NoFile = null)
  isGenerating,    \* state.isGenerating
  generatedResult, \* state.generatedResult (Null = null)
  lastRequest,     \* state.lastRequest  (<<>> = null)
  lastResponse,    \* state.lastResponse (<<>> = null)
  awaiting,        \* the promise a running handleGenerate waits for
  payload          \* what that run's createAiPayload was called to build

\* What handleGenerate and the result panel read and write.
generation == << modelImage, isGenerating, generatedResult, lastRequest,
                 lastResponse, awaiting, payload >>

vars == << items, selectedItemId, clock, containerRect, activePointers,
           gestureState, emitted, usedPtrs, lastEvent, downBy, replay, prior,
           held, events, modelImage, isGenerating, generatedResult,
           lastRequest, lastResponse, awaiting, payload >>

\* ------------------------------------------------------------ arithmetic
Abs(n) == IF n < 0 THEN -n ELSE n

Max(a, b) == IF a >= b THEN a ELSE b

\* floor(sqrt(n)) by bisection on lo..hi
RECURSIVE SqrtIter(_, _, _)
SqrtIter(n, lo, hi) ==
  IF lo >= hi THEN lo
  ELSE LET mid == (lo + hi + 1) \div 2
       IN IF mid * mid <= n THEN SqrtIter(n, mid, hi)
                            ELSE SqrtIter(n, lo, mid - 1)

Isqrt(n) == SqrtIter(n, 0, 30000)

\* Math.hypot(dx, dy) in 1/100 pixel
Hypot(dx, dy) == Isqrt(((dx * dx) + (dy * dy)) * (DistOne * DistOne))

\* atan(t) for |t| <= 0.4143, t in 1/100000: t - t^3/3 + t^5/5 - t^7/7 + t^9/9
AtanSeries(t) ==
  LET S  == 100000
      t2 == (t * t) \div S
      t3 == (t2 * Abs(t)) \div S
      t5 == (t3 * t2) \div S
      t7 == (t5 * t2) \div S
      t9 == (t7 * t2) \div S
      a  == Abs(t) - (t3 \div 3) + (t5 \div 5) - (t7 \div 7) + (t9 \div 9)
  IN IF t < 0 THEN -a ELSE a

\* atan(n/d) for 0 <= n <= d, d > 0, in 1/100000 radian
AtanOctant(n, d) ==
  IF 5 * n <= 2 * d
    THEN AtanSeries((n * 100000) \div d)
    ELSE (Pi \div 4) + 1 - AtanSeries(((d - n) * 100000) \div (d + n))

\* atan(|dy|/|dx|) for the first quadrant, in 1/100000 radian
AtanQuadrant(ay, ax) ==
  IF ax = 0 /\ ay = 0 THEN 0
  ELSE IF ay <= ax THEN AtanOctant(ay, ax)
  ELSE ((Pi + 1) \div 2) - AtanOctant(ax, ay)

\* Math.atan2(dy, dx), range (-Pi, Pi]
Atan2(dy, dx) ==
  LET q == AtanQuadrant(Abs(dy), Abs(dx))
  IN IF dx >= 0 THEN (IF dy >= 0 THEN q ELSE -q)
     ELSE IF dy >= 0 THEN Pi - q ELSE q - Pi

\* angleDiff * (180 / Math.PI), radians (1/100000) to degrees (1/100)
RadToDeg(a) ==
  LET q == Abs(a) * HalfTurnDeg
      r == ((q \div Pi) * 100) + (((q % Pi) * 100) \div Pi)
  IN IF a < 0 THEN -r ELSE r

\* ------------------------------------------------- Map<number, {x, y}>
\* A JavaScript Map iterates in insertion order; set() on a present key
\* keeps the key's place.
MapHas(m, id) == \E i \in 1..Len(m) : m[i].id = id

\* Variant: set() re-inserts the key at the end (delete, then add).
MapSetMoveToEnd(m, id, x, y) ==
  Append(SelectSeq(m, LAMBDA p : p.id # id), [id |-> id, x |-> x, y |-> y])

MapSet(m, id, x, y) ==
  IF MapHas(m, id)
    THEN [i \in 1..Len(m) |->
            IF m[i].id = id THEN [id |-> id, x |-> x, y |-> y] ELSE m[i]]
    ELSE Append(m, [id |-> id, x |-> x, y |-> y])

MapDelete(m, id) == SelectSeq(m, LAMBDA p : p.id # id)

\* Array.prototype.find: first element satisfying the test, <<>> if none
FindPointer(ps, id) ==
  LET hits == SelectSeq(ps, LAMBDA p : p.id = id)
  IN IF hits = <<>> THEN <<>> ELSE <<hits[1]>>

FindSticker(stickers, id) ==
  LET hits == SelectSeq(stickers, LAMBDA s : s.id = id)
  IN IF hits = <<>> THEN <<>> ELSE <<hits[1]>>

\* ------------------------------------------------------------- helpers
getDistance(p1, p2) == Hypot(p2.x - p1.x, p2.y - p1.y)

getAngle(p1, p2) == Atan2(p2.y - p1.y, p2.x - p1.x)

\* Variant: the start distance is used as it is.
SafeStartDistRaw(d) == d

\* `state.startDist || 1` : 0 and undefined are falsy
SafeStartDist(d) == IF d = Undefined \/ d = 0 THEN DistOne ELSE d

\* `state.startAngle || 0`
SafeStartAngle(a) == IF a = Undefined THEN 0 ELSE a

\* startSticker.scale * (currentDist / safeStartDist), scale in 1/1000.
\* A division by zero gives Infinity, or NaN when the dividend is zero too.
ScaleBy(scale, currentDist, safeStartDist) ==
  IF safeStartDist = 0
    THEN IF currentDist = 0 THEN NaN ELSE Infinity
    ELSE (scale * currentDist) \div safeStartDist

\* Variant: no floor.
ClampScaleNone(s) == s

\* Math.max(0.1, s): NaN if s is NaN
ClampScale(s) == IF s = NaN THEN NaN ELSE Max(MinScale, s)

NoSticker == [id |-> NoId, x |-> 0, y |-> 0, scale |-> 0, rotation |-> 0,
              zIndex |-> 0]

\* gestureState.current = null
NoGesture == [type |-> "NONE", stickerId |-> NoId, startPointers |-> <<>>,
              startSticker |-> NoSticker, startDist |-> Undefined,
              startAngle |-> Undefined]

NoEvent == [kind |-> "init", pointerId |-> 0, stickerId |-> NoId,
            target |-> "NONE"]

\* set: a move was handled under the live snapshot; ptrs, emit: the registry
\* it left and what it emitted; other: a later move left another registry.
NoReplay == [set |-> FALSE, ptrs |-> <<>>, emit |-> <<>>, other |-> FALSE]

\* --------------------------------------------------- handlePointerDown
\* Variant: the baseline is measured to the first pointer of the registry
\* instead of the pointer of the event.
HandleGestureFirstPointer(stickerId, pointers, sticker, e, rect) ==
  LET center == [x |-> rect.left + sticker.x, y |-> rect.top + sticker.y]
  IN [type |-> "TRANSFORM_HANDLE", stickerId |-> stickerId,
      startPointers |-> pointers, startSticker |-> sticker,
      startDist |-> getDistance(center, pointers[1]),
      startAngle |-> getAngle(center, pointers[1])]

\* The snapshot written by a pointer-down on the handle.
HandleGesture(stickerId, pointers, sticker, e, rect) ==
  LET center == [x |-> rect.left + sticker.x, y |-> rect.top + sticker.y]
  IN [type |-> "TRANSFORM_HANDLE", stickerId |-> stickerId,
      startPointers |-> pointers, startSticker |-> sticker,
      startDist |-> getDistance(center, e),
      startAngle |-> getAngle(center, e)]

\* Variant: a pointer-down is ignored while a gesture is active.
BodyGestureKeepsActive(stickerId, pointers, sticker) ==
  IF gestureState.type # "NONE" THEN gestureState
  ELSE IF Len(pointers) = 2
    THEN [type |-> "PINCH", stickerId |-> stickerId,
          startPointers |-> pointers, startSticker |-> sticker,
          startDist |-> getDistance(pointers[1], pointers[2]),
          startAngle |-> getAngle(pointers[1], pointers[2])]
    ELSE [type |-> "DRAG", stickerId |-> stickerId,
          startPointers |-> pointers, startSticker |-> sticker,
          startDist |-> Undefined, startAngle |-> Undefined]

\* The snapshot written by a pointer-down on the body.
BodyGesture(stickerId, pointers, sticker) ==
  IF Len(pointers) = 2
    THEN [type |-> "PINCH", stickerId |-> stickerId,
          startPointers |-> pointers, startSticker |-> sticker,
          startDist |-> getDistance(pointers[1], pointers[2]),
          startAngle |-> getAngle(pointers[1], pointers[2])]
    ELSE [type |-> "DRAG", stickerId |-> stickerId,
          startPointers |-> pointers, startSticker |-> sticker,
          startDist |-> Undefined, startAngle |-> Undefined]

\* The id the host gives a new contact: one no active pointer has.  Ids are
\* opaque to the handlers, so the lowest free one stands for all of them.
FreePointer(m) ==
  IF \A i \in PointerIds : MapHas(m, i) THEN 0
  ELSE CHOOSE i \in PointerIds :
         /\ ~MapHas(m, i)
         /\ \A j \in PointerIds : j < i => MapHas(m, j)

\* Variant: the pressed garment is also brought to the front.
handlePointerDownToFront(pid, pos, sid, target) ==
  /\ LET registry == MapSet(activePointers, pid, pos.x, pos.y)
         found    == FindSticker(items, sid)
         started  == IF target = "HANDLE"
                       THEN HandleGesture(sid, registry, found[1], pos,
                                          containerRect)
                       ELSE BodyGesture(sid, registry, found[1])
     IN /\ selectedItemId' = IF selectedItemId # sid THEN sid
                                                    ELSE selectedItemId
        /\ activePointers' = registry
        /\ gestureState' = IF found = <<>> THEN gestureState ELSE started
        /\ downBy' = IF found = <<>> THEN downBy ELSE pid
        /\ replay' = IF found = <<>> THEN replay ELSE NoReplay
        /\ prior' = IF found = <<>> \/ gestureState.stickerId \in {NoId, sid}
                      THEN prior ELSE gestureState.stickerId
  /\ emitted' = <<>>
  /\ usedPtrs' = <<>>
  /\ lastEvent' = [kind |-> "down", pointerId |-> pid, stickerId |-> sid,
                   target |-> target]
  /\ held' = held \cup {pid}
  /\ events' = events + 1
  /\ UNCHANGED generation
  /\ items' = [k \in 1..Len(items) |->
                 IF items[k].id = sid
                   THEN [items[k] EXCEPT !.zIndex = clock] ELSE items[k]]
  /\ UNCHANGED << clock, containerRect >>

\* handlePointerDown(e, stickerId, type): e = [x, y] is the event's
\* clientX/clientY and pid its pointerId; target is "BODY" or "HANDLE".
handlePointerDown(pid, pos, sid, target) ==
  /\ LET registry == MapSet(activePointers, pid, pos.x, pos.y)
         found    == FindSticker(items, sid)
         started  == IF target = "HANDLE"
                       THEN HandleGesture(sid, registry, found[1], pos,
                                          containerRect)
                       ELSE BodyGesture(sid, registry, found[1])
     IN /\ selectedItemId' = IF selectedItemId # sid THEN sid
                                                    ELSE selectedItemId
        /\ activePointers' = registry
        /\ gestureState' = IF found = <<>> THEN gestureState ELSE started
        /\ downBy' = IF found = <<>> THEN downBy ELSE pid
        /\ replay' = IF found = <<>> THEN replay ELSE NoReplay
        /\ prior' = IF found = <<>> \/ gestureState.stickerId \in {NoId, sid}
                      THEN prior ELSE gestureState.stickerId
  /\ emitted' = <<>>
  /\ usedPtrs' = <<>>
  /\ lastEvent' = [kind |-> "down", pointerId |-> pid, stickerId |-> sid,
                   target |-> target]
  /\ held' = held \cup {pid}
  /\ events' = events + 1
  /\ UNCHANGED generation
  /\ UNCHANGED << items, clock, containerRect >>

\* A pointer-down reaches the handler only from the element of a garment that
\* is in the list, and from the handle only while that garment is selected.
PointerDown(pid, pos, sid, target) ==
  /\ events < MaxEvents
  /\ pid = FreePointer(activePointers)
  /\ FindSticker(items, sid) # <<>>
  /\ target = "HANDLE" => selectedItemId = sid
  /\ handlePointerDown(pid, pos, sid, target)

\* --------------------------------------------------- handlePointerMove
\* Each resolver returns the onStickerChange calls it makes (emit) and the
\* pointer records it computed them from (used).
Quiet == [emit |-> <<>>, used |-> <<>>]

\* Variant: the vertical delta is taken from the horizontal one.
DragMoveSameDelta(state, pointers) ==
  LET currentP == FindPointer(pointers, state.startPointers[1].id)
  IN IF currentP = <<>> THEN Quiet
     ELSE LET dx == currentP[1].x - state.startPointers[1].x
          IN [emit |-> << [state.startSticker EXCEPT
                             !.id = state.stickerId,
                             !.x = state.startSticker.x + dx,
                             !.y = state.startSticker.y + dx] >>,
              used |-> currentP]

\* Variant: the delta is added to the live item, not to the snapshot.
DragMoveLive(state, pointers) ==
  LET currentP == FindPointer(pointers, state.startPointers[1].id)
      live     == FindSticker(items, state.stickerId)
  IN IF currentP = <<>> \/ live = <<>> THEN Quiet
     ELSE LET dx == currentP[1].x - state.startPointers[1].x
              dy == currentP[1].y - state.startPointers[1].y
          IN [emit |-> << [state.startSticker EXCEPT
                             !.id = state.stickerId,
                             !.x = live[1].x + dx,
                             !.y = live[1].y + dy] >>,
              used |-> currentP]

DragMove(state, pointers) ==
  LET currentP == FindPointer(pointers, state.startPointers[1].id)
  IN IF currentP = <<>> THEN Quiet
     ELSE LET dx == currentP[1].x - state.startPointers[1].x
              dy == currentP[1].y - state.startPointers[1].y
          IN [emit |-> << [state.startSticker EXCEPT
                             !.id = state.stickerId,
                             !.x = state.startSticker.x + dx,
                             !.y = state.startSticker.y + dy] >>,
              used |-> currentP]

HandleMove(state, pointers, rect) ==
  LET currentP == FindPointer(pointers, state.startPointers[1].id)
  IN IF currentP = <<>> THEN Quiet
     ELSE LET center == [x |-> rect.left + state.startSticker.x,
                         y |-> rect.top + state.startSticker.y]
              currentDist   == getDistance(center, currentP[1])
              currentAngle  == getAngle(center, currentP[1])
              safeStartDist == SafeStartDist(state.startDist)
              angleDiff     == currentAngle - SafeStartAngle(state.startAngle)
          IN [emit |-> << [state.startSticker EXCEPT
                             !.id = state.stickerId,
                             !.scale = ClampScale(ScaleBy(
                                 state.startSticker.scale, currentDist,
                                 safeStartDist)),
                             !.rotation = state.startSticker.rotation
                                            + RadToDeg(angleDiff)] >>,
              used |-> currentP]

\* Variant: the scale and the rotation are reported by separate callbacks.
PinchMoveTwoCalls(state, pointers) ==
  LET p1 == pointers[1]
      p2 == pointers[2]
      currentDist  == getDistance(p1, p2)
      currentAngle == getAngle(p1, p2)
      angleDiff    == currentAngle - SafeStartAngle(state.startAngle)
  IN [emit |-> << [state.startSticker EXCEPT
                     !.id = state.stickerId,
                     !.scale = ClampScale(ScaleBy(
                         state.startSticker.scale, currentDist,
                         SafeStartDist(state.startDist)))],
                  [state.startSticker EXCEPT
                     !.id = state.stickerId,
                     !.rotation = state.startSticker.rotation
                                    + RadToDeg(angleDiff)] >>,
      used |-> << p1, p2 >>]

\* Variant: the garment follows the midpoint of the two pointers.
PinchMoveFollowsMidpoint(state, pointers) ==
  LET p1 == pointers[1]
      p2 == pointers[2]
      currentDist  == getDistance(p1, p2)
      currentAngle == getAngle(p1, p2)
      angleDiff    == currentAngle - SafeStartAngle(state.startAngle)
      dx == ((p1.x + p2.x) - (state.startPointers[1].x
                               + state.startPointers[2].x)) \div 2
      dy == ((p1.y + p2.y) - (state.startPointers[1].y
                               + state.startPointers[2].y)) \div 2
  IN [emit |-> << [state.startSticker EXCEPT
                     !.id = state.stickerId,
                     !.x = state.startSticker.x + dx,
                     !.y = state.startSticker.y + dy,
                     !.scale = ClampScale(ScaleBy(
                         state.startSticker.scale, currentDist,
                         SafeStartDist(state.startDist))),
                     !.rotation = state.startSticker.rotation
                                    + RadToDeg(angleDiff)] >>,
      used |-> << p1, p2 >>]

\* Variant: distance and angle are measured from the garment's center.
PinchMoveFromCenter(state, pointers) ==
  LET p1 == [x |-> containerRect.left + state.startSticker.x,
             y |-> containerRect.top + state.startSticker.y]
      p2 == pointers[2]
      currentDist  == getDistance(p1, p2)
      currentAngle == getAngle(p1, p2)
      angleDiff    == currentAngle - SafeStartAngle(state.startAngle)
  IN [emit |-> << [state.startSticker EXCEPT
                     !.id = state.stickerId,
                     !.scale = ClampScale(ScaleBy(
                         state.startSticker.scale, currentDist,
                         SafeStartDist(state.startDist))),
                     !.rotation = state.startSticker.rotation
                                    + RadToDeg(angleDiff)] >>,
      used |-> << pointers[1], p2 >>]

PinchMove(state, pointers) ==
  LET p1 == pointers[1]
      p2 == pointers[2]
      currentDist  == getDistance(p1, p2)
      currentAngle == getAngle(p1, p2)
      angleDiff    == currentAngle - SafeStartAngle(state.startAngle)
  IN [emit |-> << [state.startSticker EXCEPT
                     !.id = state.stickerId,
                     !.scale = ClampScale(ScaleBy(
                         state.startSticker.scale, currentDist,
                         SafeStartDist(state.startDist))),
                     !.rotation = state.startSticker.rotation
                                    + RadToDeg(angleDiff)] >>,
      used |-> << p1, p2 >>]

\* The dispatch on the gesture kind (the if / else-if chain).
ResolveMove(state, pointers, rect) ==
  IF state.type = "DRAG" /\ Len(pointers) > 0 THEN DragMove(state, pointers)
  ELSE IF state.type = "TRANSFORM_HANDLE"
         THEN HandleMove(state, pointers, rect)
  ELSE IF state.type = "PINCH" /\ Len(pointers) = 2
         THEN PinchMove(state, pointers)
  ELSE Quiet

\* Variant: an update whose id is not in the list is appended.
handleStickerChangeUpserts(list, updatedSticker) ==
  IF \E i \in 1..Len(list) : list[i].id = updatedSticker.id
    THEN [i \in 1..Len(list) |->
            IF list[i].id = updatedSticker.id
              THEN [list[i] EXCEPT !.x = updatedSticker.x,
                                   !.y = updatedSticker.y,
                                   !.scale = updatedSticker.scale,
                                   !.rotation = updatedSticker.rotation,
                                   !.zIndex = updatedSticker.zIndex]
              ELSE list[i]]
    ELSE Append(list, updatedSticker)

\* App.handleStickerChange: merge the update into the item with the same id.
handleStickerChange(list, updatedSticker) ==
  [i \in 1..Len(list) |->
     IF list[i].id = updatedSticker.id
       THEN [list[i] EXCEPT !.x = updatedSticker.x, !.y = updatedSticker.y,
                            !.scale = updatedSticker.scale,
                            !.rotation = updatedSticker.rotation,
                            !.zIndex = updatedSticker.zIndex]
       ELSE list[i]]

RECURSIVE ApplyAll(_, _)
ApplyAll(list, updates) ==
  IF updates = <<>> THEN list
  ELSE ApplyAll(handleStickerChange(list, Head(updates)), Tail(updates))

\* Variant: each move re-bases the origin pointers on the registry it leaves.
PointerMoveRebases(pid, pos) ==
  /\ events < MaxEvents
  /\ MapHas(activePointers, pid) \/ pid = FreePointer(activePointers)
  /\ events' = events + 1
  /\ UNCHANGED generation
  /\ lastEvent' = [kind |-> "move", pointerId |-> pid, stickerId |-> NoId,
                   target |-> IF MapHas(activePointers, pid) THEN "TRACKED"
                                                             ELSE "UNTRACKED"]
  /\ IF ~MapHas(activePointers, pid)
       THEN /\ emitted' = <<>>
            /\ usedPtrs' = <<>>
            /\ UNCHANGED << items, activePointers, replay, gestureState >>
       ELSE LET registry == MapSet(activePointers, pid, pos.x, pos.y)
                out == IF gestureState.type = "NONE" THEN Quiet
                       ELSE ResolveMove(gestureState, registry, containerRect)
            IN /\ activePointers' = registry
               /\ gestureState' = IF gestureState.type = "NONE"
                                    THEN gestureState
                                  ELSE [gestureState EXCEPT
                                          !.startPointers = registry]
               /\ emitted' = out.emit
               /\ usedPtrs' = out.used
               /\ items' = ApplyAll(items, out.emit)
               /\ replay' = IF gestureState.type = "NONE" THEN replay
                            ELSE IF ~replay.set
                              THEN [set |-> TRUE, ptrs |-> registry,
                                    emit |-> out.emit, other |-> FALSE]
                            ELSE [replay EXCEPT
                                    !.other = @ \/ registry # replay.ptrs]
  /\ UNCHANGED << selectedItemId, clock, containerRect, downBy, prior,
                  held >>

\* Variant: no test that the pointer is in the registry.
PointerMoveUnguarded(pid, pos) ==
  /\ events < MaxEvents
  /\ MapHas(activePointers, pid) \/ pid = FreePointer(activePointers)
  /\ events' = events + 1
  /\ UNCHANGED generation
  /\ lastEvent' = [kind |-> "move", pointerId |-> pid, stickerId |-> NoId,
                   target |-> IF MapHas(activePointers, pid) THEN "TRACKED"
                                                             ELSE "UNTRACKED"]
  /\ LET registry == MapSet(activePointers, pid, pos.x, pos.y)
         out == IF gestureState.type = "NONE" THEN Quiet
                ELSE ResolveMove(gestureState, registry, containerRect)
     IN /\ activePointers' = registry
        /\ emitted' = out.emit
        /\ usedPtrs' = out.used
        /\ items' = ApplyAll(items, out.emit)
        /\ replay' = IF gestureState.type = "NONE" THEN replay
                     ELSE IF ~replay.set
                       THEN [set |-> TRUE, ptrs |-> registry,
                             emit |-> out.emit, other |-> FALSE]
                     ELSE [replay EXCEPT
                             !.other = @ \/ registry # replay.ptrs]
  /\ UNCHANGED << selectedItemId, clock, containerRect, gestureState, downBy,
                  prior, held >>

\* handlePointerMove(e): pid is the event's pointerId, pos its client point.
PointerMove(pid, pos) ==
  /\ events < MaxEvents
  /\ MapHas(activePointers, pid) \/ pid = FreePointer(activePointers)
  /\ events' = events + 1
  /\ UNCHANGED generation
  /\ lastEvent' = [kind |-> "move", pointerId |-> pid, stickerId |-> NoId,
                   target |-> IF MapHas(activePointers, pid) THEN "TRACKED"
                                                             ELSE "UNTRACKED"]
  /\ IF ~MapHas(activePointers, pid)
       THEN /\ emitted' = <<>>
            /\ usedPtrs' = <<>>
            /\ UNCHANGED << items, activePointers, replay >>
       ELSE LET registry == MapSet(activePointers, pid, pos.x, pos.y)
                out == IF gestureState.type = "NONE" THEN Quiet
                       ELSE ResolveMove(gestureState, registry, containerRect)
            IN /\ activePointers' = registry
               /\ emitted' = out.emit
               /\ usedPtrs' = out.used
               /\ items' = ApplyAll(items, out.emit)
               /\ replay' = IF gestureState.type = "NONE" THEN replay
                            ELSE IF ~replay.set
                              THEN [set |-> TRUE, ptrs |-> registry,
                                    emit |-> out.emit, other |-> FALSE]
                            ELSE [replay EXCEPT
                                    !.other = @ \/ registry # replay.ptrs]
  /\ UNCHANGED << selectedItemId, clock, containerRect, gestureState, downBy,
                  prior, held >>

\* ----------------------------------------------------- handlePointerUp
\* Variant: the gesture survives while other pointers are still down.
ClearGestureWhenEmpty(state, registry) ==
  IF Len(registry) = 0 THEN NoGesture ELSE state

\* Both branches of the size test assign null.
ClearGesture(state, registry) ==
  IF Len(registry) = 0 THEN NoGesture ELSE NoGesture

Lift(kind, pid) ==
  /\ events < MaxEvents
  /\ MapHas(activePointers, pid) \/ pid = FreePointer(activePointers)
  /\ events' = events + 1
  /\ UNCHANGED generation
  /\ activePointers' = MapDelete(activePointers, pid)
  /\ gestureState' = ClearGesture(gestureState, MapDelete(activePointers, pid))
  /\ downBy' = IF gestureState' = NoGesture THEN 0 ELSE downBy
  /\ replay' = IF gestureState' = NoGesture THEN NoReplay ELSE replay
  /\ prior' = IF gestureState' = NoGesture THEN NoId ELSE prior
  /\ held' = held \ {pid}
  /\ emitted' = <<>>
  /\ usedPtrs' = <<>>
  /\ lastEvent' = [kind |-> kind, pointerId |-> pid, stickerId |-> NoId,
                   target |-> IF MapHas(activePointers, pid) THEN "TRACKED"
                                                             ELSE "UNTRACKED"]
  /\ UNCHANGED << items, selectedItemId, clock, containerRect >>

\* onPointerUp={handlePointerUp}
PointerUp(pid) == Lift("up", pid)

\* Variant: a cancel forgets the pointer and leaves the gesture alone.
PointerCancelKeepsGesture(pid) ==
  /\ events < MaxEvents
  /\ events' = events + 1
  /\ UNCHANGED generation
  /\ MapHas(activePointers, pid) \/ pid = FreePointer(activePointers)
  /\ activePointers' = MapDelete(activePointers, pid)
  /\ held' = held \ {pid}
  /\ emitted' = <<>>
  /\ usedPtrs' = <<>>
  /\ lastEvent' = [kind |-> "cancel", pointerId |-> pid, stickerId |-> NoId,
                   target |-> IF MapHas(activePointers, pid) THEN "TRACKED"
                                                             ELSE "UNTRACKED"]
  /\ UNCHANGED << items, selectedItemId, clock, containerRect, gestureState,
                  downBy, replay, prior >>

\* onPointerCancel={handlePointerUp}
PointerCancel(pid) == Lift("cancel", pid)

\* ------------------------------------------------ App: upload and layers
\* Math.random().toString(36).substring(7): an id no listed item has.
\* No id is issued twice: the k-th upload of a run gets id k.
FreshId(time) == time - BaseTime + 1

\* handleClothingUpload: the new item is appended and becomes the selection.
Upload ==
  /\ events < MaxEvents
  /\ events' = events + 1
  /\ UNCHANGED generation
  /\ clock - BaseTime < MaxItems
  /\ LET newItem == [id |-> FreshId(clock), x |-> InitialX, y |-> InitialY,
                     scale |-> ScaleOne, rotation |-> InitialRot,
                     zIndex |-> clock]
     IN /\ items' = Append(items, newItem)
        /\ selectedItemId' = newItem.id
  /\ clock' = clock + 1
  /\ emitted' = <<>>
  /\ usedPtrs' = <<>>
  /\ lastEvent' = [kind |-> "upload", pointerId |-> 0, stickerId |-> NoId,
                   target |-> "NONE"]
  /\ UNCHANGED << containerRect, activePointers, gestureState, downBy,
                  replay, prior, held >>

\* [...list].sort((a, b) => a.zIndex - b.zIndex): stable, ascending
RECURSIVE InsertByZ(_, _)
InsertByZ(sorted, item) ==
  IF sorted = <<>> THEN << item >>
  ELSE IF Head(sorted).zIndex <= item.zIndex
         THEN << Head(sorted) >> \o InsertByZ(Tail(sorted), item)
         ELSE << item >> \o sorted

RECURSIVE SortByZ(_)
SortByZ(list) ==
  IF list = <<>> THEN <<>>
  ELSE InsertByZ(SortByZ(SubSeq(list, 1, Len(list) - 1)), list[Len(list)])

\* sorted.findIndex(i => i.id === id), 1-based; 0 stands for -1
FindIndex(list, id) ==
  IF \E k \in 1..Len(list) : list[k].id = id
    THEN CHOOSE k \in 1..Len(list) :
           /\ list[k].id = id
           /\ \A j \in 1..(k - 1) : list[j].id # id
    ELSE 0

\* Variant: the two neighbours exchange their zIndex, nothing is renumbered.
handleLayerChangeSwapsKeys(list, selected, direction) ==
  IF selected = NoId THEN list
  ELSE LET sorted       == SortByZ(list)
           currentIndex == FindIndex(sorted, selected)
           newIndex     == IF direction = "up" THEN currentIndex + 1
                                               ELSE currentIndex - 1
       IN IF currentIndex = 0 THEN list
          ELSE IF newIndex < 1 \/ newIndex > Len(sorted) THEN list
          ELSE [k \in 1..Len(sorted) |->
                  IF k = newIndex
                    THEN [sorted[currentIndex] EXCEPT
                            !.zIndex = sorted[newIndex].zIndex]
                  ELSE IF k = currentIndex
                    THEN [sorted[newIndex] EXCEPT
                            !.zIndex = sorted[currentIndex].zIndex]
                  ELSE sorted[k]]

\* Variant: the renumbering starts at 1.
handleLayerChangeFromOne(list, selected, direction) ==
  IF selected = NoId THEN list
  ELSE LET sorted       == SortByZ(list)
           currentIndex == FindIndex(sorted, selected)
           newIndex     == IF direction = "up" THEN currentIndex + 1
                                               ELSE currentIndex - 1
       IN IF currentIndex = 0 THEN list
          ELSE IF newIndex < 1 \/ newIndex > Len(sorted) THEN list
          ELSE [k \in 1..Len(sorted) |->
                  LET item == IF k = newIndex THEN sorted[currentIndex]
                              ELSE IF k = currentIndex THEN sorted[newIndex]
                              ELSE sorted[k]
                  IN [item EXCEPT !.zIndex = k]]

\* Variant: the selected garment goes to the front or to the back.
handleLayerChangeToEnd(list, selected, direction) ==
  IF selected = NoId THEN list
  ELSE LET sorted       == SortByZ(list)
           currentIndex == FindIndex(sorted, selected)
           newIndex     == IF direction = "up" THEN currentIndex + 1
                                               ELSE currentIndex - 1
       IN IF currentIndex = 0 THEN list
          ELSE IF newIndex < 1 \/ newIndex > Len(sorted) THEN list
          ELSE LET others == SelectSeq(sorted, LAMBDA i : i.id # selected)
                   moved  == IF direction = "up"
                               THEN others \o << sorted[currentIndex] >>
                               ELSE << sorted[currentIndex] >> \o others
               IN [k \in 1..Len(moved) |->
                     [moved[k] EXCEPT !.zIndex = k - 1]]

\* Variant: at the top or bottom the list is still sorted and renumbered.
handleLayerChangeAlwaysRenumbers(list, selected, direction) ==
  IF selected = NoId THEN list
  ELSE LET sorted       == SortByZ(list)
           currentIndex == FindIndex(sorted, selected)
           newIndex     == IF direction = "up" THEN currentIndex + 1
                                               ELSE currentIndex - 1
       IN IF currentIndex = 0 THEN list
          ELSE IF newIndex < 1 \/ newIndex > Len(sorted) THEN [k \in 1..Len(sorted) |-> [sorted[k] EXCEPT !.zIndex = k - 1]]
          ELSE [k \in 1..Len(sorted) |->
                  LET item == IF k = newIndex THEN sorted[currentIndex]
                              ELSE IF k = currentIndex THEN sorted[newIndex]
                              ELSE sorted[k]
                  IN [item EXCEPT !.zIndex = k - 1]]

\* handleLayerChange: the new clothingItems
handleLayerChange(list, selected, direction) ==
  IF selected = NoId THEN list
  ELSE LET sorted       == SortByZ(list)
           currentIndex == FindIndex(sorted, selected)
           newIndex     == IF direction = "up" THEN currentIndex + 1
                                               ELSE currentIndex - 1
       IN IF currentIndex = 0 THEN list
          ELSE IF newIndex < 1 \/ newIndex > Len(sorted) THEN list
          ELSE [k \in 1..Len(sorted) |->
                  LET item == IF k = newIndex THEN sorted[currentIndex]
                              ELSE IF k = currentIndex THEN sorted[newIndex]
                              ELSE sorted[k]
                  IN [item EXCEPT !.zIndex = k - 1]]

\* A call of handleLayerChange(direction), whatever the selection is.
LayerRequest(direction) ==
  /\ events < MaxEvents
  /\ events' = events + 1
  /\ UNCHANGED generation
  /\ items' = handleLayerChange(items, selectedItemId, direction)
  /\ emitted' = <<>>
  /\ usedPtrs' = <<>>
  /\ lastEvent' = [kind |-> "layer", pointerId |-> 0, stickerId |-> NoId,
                   target |-> direction]
  /\ UNCHANGED << selectedItemId, clock, containerRect, activePointers,
                  gestureState, downBy, replay, prior, held >>

\* The layering buttons sit in the toolbar, shown while a listed item is
\* selected.
LayerChange(direction) ==
  /\ FindSticker(items, selectedItemId) # <<>>
  /\ LayerRequest(direction)

\* handleDeleteItem: the new clothingItems
handleDeleteItem(list, selected) ==
  IF selected = NoId THEN list
  ELSE SelectSeq(list, LAMBDA i : i.id # selected)

\* Variant: the deleted garment stays selected.
DeleteKeepsSelection ==
  /\ events < MaxEvents
  /\ events' = events + 1
  /\ UNCHANGED generation
  /\ FindSticker(items, selectedItemId) # <<>>
  /\ items' = handleDeleteItem(items, selectedItemId)
  /\ emitted' = <<>>
  /\ usedPtrs' = <<>>
  /\ lastEvent' = [kind |-> "delete", pointerId |-> 0,
                   stickerId |-> selectedItemId, target |-> "NONE"]
  /\ UNCHANGED << selectedItemId, clock, containerRect, activePointers,
                  gestureState, downBy, replay, prior, held >>

\* The Delete button sits in the same toolbar.  The selection becomes null;
\* the registry and the gesture snapshot are not touched.
Delete ==
  /\ events < MaxEvents
  /\ events' = events + 1
  /\ UNCHANGED generation
  /\ FindSticker(items, selectedItemId) # <<>>
  /\ items' = handleDeleteItem(items, selectedItemId)
  /\ selectedItemId' = NoId
  /\ emitted' = <<>>
  /\ usedPtrs' = <<>>
  /\ lastEvent' = [kind |-> "delete", pointerId |-> 0,
                   stickerId |-> selectedItemId, target |-> "NONE"]
  /\ UNCHANGED << clock, containerRect, activePointers, gestureState, downBy,
                  replay, prior, held >>

\* Variant: the click on the background is ignored.
BackgroundClickIgnored ==
  /\ events < MaxEvents
  /\ events' = events + 1
  /\ UNCHANGED generation
  /\ emitted' = <<>>
  /\ usedPtrs' = <<>>
  /\ lastEvent' = [kind |-> "background", pointerId |-> 0, stickerId |-> NoId,
                   target |-> "NONE"]
  /\ UNCHANGED << items, selectedItemId, clock, containerRect, activePointers,
                  gestureState, downBy, replay, prior, held >>

\* A click whose target is the container itself: onSelectSticker(null).
BackgroundClick ==
  /\ events < MaxEvents
  /\ events' = events + 1
  /\ UNCHANGED generation
  /\ selectedItemId' = NoId
  /\ emitted' = <<>>
  /\ usedPtrs' = <<>>
  /\ lastEvent' = [kind |-> "background", pointerId |-> 0, stickerId |-> NoId,
                   target |-> "NONE"]
  /\ UNCHANGED << items, clock, containerRect, activePointers, gestureState,
                  downBy, replay, prior, held >>

\* The toolbar's sliders, shown while the selected garment is in the list.
\* Each change hands the rendered garment with one field replaced to
\* handleStickerChange.  Size runs from 0.2 to 3, Rotate from -180 to 180;
\* the ends of each range stand for the values in between.
SliderScales == { 200, 3000 }

SliderRotations == { -18000, 18000 }

Slider(updatedSticker, field) ==
  /\ events < MaxEvents
  /\ events' = events + 1
  /\ UNCHANGED generation
  /\ FindSticker(items, selectedItemId) # <<>>
  /\ updatedSticker # FindSticker(items, selectedItemId)[1]
  /\ items' = handleStickerChange(items, updatedSticker)
  /\ emitted' = <<>>
  /\ usedPtrs' = <<>>
  /\ lastEvent' = [kind |-> "slider", pointerId |-> 0, stickerId |-> NoId,
                   target |-> field]
  /\ UNCHANGED << selectedItemId, clock, containerRect, activePointers,
                  gestureState, downBy, replay, prior, held >>

SizeSlider(value) ==
  /\ FindSticker(items, selectedItemId) # <<>>
  /\ Slider([FindSticker(items, selectedItemId)[1] EXCEPT !.scale = value],
            "scale")

RotateSlider(value) ==
  /\ FindSticker(items, selectedItemId) # <<>>
  /\ Slider([FindSticker(items, selectedItemId)[1] EXCEPT
               !.rotation = value], "rotation")

\* ------------------------------------------------------------ generation
\* handleGenerate is an async function: it runs to its first await when the
\* Generate button is clicked, and each later part runs when the promise it
\* waits for settles.  Other events are handled in between.
NoFile == 0        \* modelImage: null

Null == "null"     \* generatedResult: null

DegOne == 100      \* one degree, in units of rotation

ScaleCent == 10    \* 0.01, in units of scale

\* files the user picks as model image
ModelFiles == { 1 }

\* image data the API answers with
ImageData == { "A", "B" }

InitGeneration ==
  /\ modelImage = NoFile
  /\ isGenerating = FALSE
  /\ generatedResult = Null
  /\ lastRequest = <<>>
  /\ lastResponse = <<>>
  /\ awaiting = "none"
  /\ payload = <<>>

\* Math.round(n) at the given unit: the nearest multiple, halves upwards
Round(n, unit) == ((n + unit \div 2) \div unit) * unit

fileToBase64(file) == [base64 |-> file]

\* createAiPayload: the garments in layer order, with rounded numbers.  The
\* prompt is a text derived from the same garments.
createAiPayload(file, list) ==
  LET sortedItems == SortByZ(list)
  IN [modelImage |-> fileToBase64(file),
      stickers |-> [i \in 1..Len(sortedItems) |->
                      [id |-> sortedItems[i].id,
                       x |-> sortedItems[i].x,
                       y |-> sortedItems[i].y,
                       scale |-> Round(sortedItems[i].scale, ScaleCent),
                       rotation |-> Round(sortedItems[i].rotation, DegOne)]]]

\* generateTryOnImage returns the first image part of the answer as a data URL
generateTryOnImage(data) == [imageUrl |-> "data:image/png;base64," \o data]

\* An event of the page outside the canvas and the toolbar.
PageEvent(kind) ==
  /\ events < MaxEvents
  /\ events' = events + 1
  /\ emitted' = <<>>
  /\ usedPtrs' = <<>>
  /\ lastEvent' = [kind |-> kind, pointerId |-> 0, stickerId |-> NoId,
                   target |-> "NONE"]
  /\ UNCHANGED << items, selectedItemId, clock, containerRect,
                  activePointers, gestureState, downBy, replay, prior, held >>

handleModelUpload(file) ==
  /\ PageEvent("model")
  /\ modelImage' = file
  /\ UNCHANGED << isGenerating, generatedResult, lastRequest, lastResponse,
                  awaiting, payload >>

\* The Generate button is disabled while isGenerating or without a model
\* image (the handler's own check of the model image returns early in the
\* same case).  The click raises the flag, clears the result and calls
\* createAiPayload with the state of the render that was clicked.
Generate ==
  /\ ~ isGenerating
  /\ modelImage # NoFile
  /\ PageEvent("generate")
  /\ isGenerating' = TRUE
  /\ generatedResult' = Null
  /\ awaiting' = "createAiPayload"
  /\ payload' = << createAiPayload(modelImage, items) >>
  /\ UNCHANGED << modelImage, lastRequest, lastResponse >>

\* await createAiPayload(state) resolved: the request is stored and the API
\* is called.
PayloadResolved ==
  /\ awaiting = "createAiPayload"
  /\ lastRequest' = payload
  /\ awaiting' = "generateTryOnImage"
  /\ UNCHANGED << items, selectedItemId, clock, containerRect,
                  activePointers, gestureState, emitted, usedPtrs, lastEvent,
                  downBy, replay, prior, held, events, modelImage,
                  isGenerating, generatedResult, lastResponse, payload >>

\* The catch block: the flag is lowered, the result stays as it is.
Caught ==
  /\ isGenerating' = FALSE
  /\ awaiting' = "none"
  /\ payload' = <<>>
  /\ UNCHANGED << items, selectedItemId, clock, containerRect,
                  activePointers, gestureState, emitted, usedPtrs, lastEvent,
                  downBy, replay, prior, held, events, modelImage,
                  generatedResult, lastRequest, lastResponse >>

\* await createAiPayload(state) threw (a file could not be read)
PayloadRejected ==
  /\ awaiting = "createAiPayload"
  /\ Caught

\* await generateTryOnImage(payload) resolved
CallResolved(data) ==
  /\ awaiting = "generateTryOnImage"
  /\ LET response == generateTryOnImage(data)
     IN /\ generatedResult' = response.imageUrl
        /\ lastResponse' = << response >>
  /\ isGenerating' = FALSE
  /\ awaiting' = "none"
  /\ payload' = <<>>
  /\ UNCHANGED << items, selectedItemId, clock, containerRect,
                  activePointers, gestureState, emitted, usedPtrs, lastEvent,
                  downBy, replay, prior, held, events, modelImage,
                  lastRequest >>

\* Variant: the catch block leaves the flag up.
CallRejectedStaysGenerating ==
  /\ awaiting = "generateTryOnImage"
  /\ awaiting' = "none"
  /\ payload' = <<>>
  /\ UNCHANGED << items, selectedItemId, clock, containerRect,
                  activePointers, gestureState, emitted, usedPtrs, lastEvent,
                  downBy, replay, prior, held, events, modelImage,
                  isGenerating, generatedResult, lastRequest, lastResponse >>

\* await generateTryOnImage(payload) threw (the API failed, or its answer
\* held no image)
CallRejected ==
  /\ awaiting = "generateTryOnImage"
  /\ Caught

\* "Start Over", shown under a result
StartOver ==
  /\ generatedResult # Null
  /\ PageEvent("startover")
  /\ generatedResult' = Null
  /\ UNCHANGED << modelImage, isGenerating, lastRequest, lastResponse,
                  awaiting, payload >>

\* ------------------------------------------------------- specification
Init ==
  /\ items = <<>>
  /\ selectedItemId = NoId
  /\ clock = BaseTime
  /\ containerRect \in ContainerRects
  /\ activePointers = <<>>
  /\ gestureState = NoGesture
  /\ emitted = <<>>
  /\ usedPtrs = <<>>
  /\ lastEvent = NoEvent
  /\ downBy = 0
  /\ replay = NoReplay
  /\ prior = NoId
  /\ held = {}
  /\ events = 0
  /\ InitGeneration

Next ==
  \/ Upload
  \/ \E pid \in PointerIds, pos \in Positions, sid \in ItemIds,
        target \in {"BODY", "HANDLE"} : PointerDown(pid, pos, sid, target)
  \/ \E pid \in PointerIds, pos \in Positions : PointerMove(pid, pos)
  \/ \E pid \in PointerIds : PointerUp(pid)
  \/ \E pid \in PointerIds : PointerCancel(pid)
  \/ \E direction \in {"up", "down"} : LayerChange(direction)
  \/ \E value \in SliderScales : SizeSlider(value)
  \/ \E value \in SliderRotations : RotateSlider(value)
  \/ Delete
  \/ BackgroundClick

Spec == Init /\ [][Next]_vars

\* A pointer-down that names a garment the list no longer holds: the lookup
\* at the top of the gesture set-up exists for this case (an element whose
\* garment was deleted before its event is handled).
StalePointerDown(pid, pos, sid, target) ==
  /\ events < MaxEvents
  /\ pid = FreePointer(activePointers)
  /\ sid < FreshId(clock)
  /\ FindSticker(items, sid) = <<>>
  /\ handlePointerDown(pid, pos, sid, target)

NextStale ==
  \/ Next
  \/ \E pid \in PointerIds, pos \in Positions, sid \in ItemIds,
        target \in {"BODY", "HANDLE"} : StalePointerDown(pid, pos, sid, target)

SpecStale == Init /\ [][NextStale]_vars

\* Pointer positions on a wide circle around the place of a new garment's
\* center, (160,170) on screen: one to its right and two to its left, just
\* below and just above the horizontal, where Math.atan2 passes from pi to
\* -pi.  The same handlers, driven over these positions.
TurnPositions == { [x |-> 180, y |-> 170], [x |-> 140, y |-> 171],
                   [x |-> 140, y |-> 169] }

NextTurn ==
  \/ Upload
  \/ \E pid \in PointerIds, pos \in TurnPositions, sid \in ItemIds,
        target \in {"BODY", "HANDLE"} : PointerDown(pid, pos, sid, target)
  \/ \E pid \in PointerIds, pos \in TurnPositions : PointerMove(pid, pos)
  \/ \E pid \in PointerIds : PointerUp(pid)
  \/ \E pid \in PointerIds : PointerCancel(pid)

SpecTurn == Init /\ [][NextTurn]_vars

\* Layering, examined on a canvas that already holds up to MaxLayerItems
\* garments: uploaded one after the other (ids and zIndex in upload order),
\* each dragged a little to a place of its own, any one of them selected or
\* none.  From there: layer requests, taps on a garment, clicks on the
\* background, delete, and a pointer-down for a deleted garment.
UploadedList(n) ==
  [k \in 1..n |-> [id |-> k, x |-> InitialX + 2 * (k - 1), y |-> InitialY,
                   scale |-> ScaleOne, rotation |-> InitialRot,
                   zIndex |-> BaseTime + k - 1]]

InitLayers ==
  /\ \E n \in 1..MaxLayerItems :
       /\ items = UploadedList(n)
       /\ clock = BaseTime + n
       /\ selectedItemId \in {NoId} \cup (1..n)
  /\ containerRect \in ContainerRects
  /\ activePointers = <<>>
  /\ gestureState = NoGesture
  /\ emitted = <<>>
  /\ usedPtrs = <<>>
  /\ lastEvent = NoEvent
  /\ downBy = 0
  /\ replay = NoReplay
  /\ prior = NoId
  /\ held = {}
  /\ events = 0
  /\ InitGeneration

TapPositions == { [x |-> 160, y |-> 170] }

NextLayers ==
  \/ \E direction \in {"up", "down"} : LayerRequest(direction)
  \/ \E pid \in PointerIds, pos \in TapPositions, sid \in 1..MaxLayerItems :
       PointerDown(pid, pos, sid, "BODY")
  \/ \E pid \in PointerIds, pos \in TapPositions, sid \in 1..MaxLayerItems :
       StalePointerDown(pid, pos, sid, "BODY")
  \/ \E pid \in PointerIds : PointerUp(pid)
  \/ BackgroundClick
  \/ Delete

SpecLayers == InitLayers /\ [][NextLayers]_vars

\* The page around a generation: model image, garments, the size slider, the
\* Generate button and what follows it.  A pending promise settles: the file
\* reader ends in load or error, the request in an answer or a failure, and
\* the continuation of the await runs then.
NextGenerate ==
  \/ \E file \in ModelFiles : handleModelUpload(file)
  \/ Upload
  \/ \E value \in SliderScales : SizeSlider(value)
  \/ Generate
  \/ PayloadResolved
  \/ PayloadRejected
  \/ \E data \in ImageData : CallResolved(data)
  \/ CallRejected
  \/ StartOver

SpecGenerate ==
  /\ Init
  /\ [][NextGenerate]_vars
  /\ WF_vars(PayloadResolved \/ PayloadRejected)
  /\ WF_vars((\E data \in ImageData : CallResolved(data)) \/ CallRejected)

\* ================================================================ claims
TrackedMove == lastEvent.kind = "move" /\ lastEvent.target = "TRACKED"

Active == gestureState.type # "NONE"

Lifted == lastEvent.kind \in {"up", "cancel"}

IdsOf(ps) == [i \in 1..Len(ps) |-> ps[i].id]

\* C1: after a pointer-up or pointer-cancel the lifted pointer is not in the
\* registry and no gesture is active, even with other pointers still down;
\* and while no gesture is active, an event that is not a pointer-down leaves
\* it so and emits no transform (moves of the remaining pointers included).
C1_TeardownClearsGesture ==
  [][ /\ lastEvent'.kind \in {"up", "cancel"} =>
           /\ gestureState' = NoGesture
           /\ ~MapHas(activePointers', lastEvent'.pointerId)
      /\ (gestureState = NoGesture /\ lastEvent'.kind # "down") =>
           /\ gestureState' = NoGesture
           /\ emitted' = <<>>
           /\ (lastEvent'.kind = "move" => items' = items) ]_vars

\* C1 witness: a remaining pointer moved after a lift, with no gesture.
C1_Witness ==
  /\ TrackedMove
  /\ gestureState = NoGesture
  /\ Len(activePointers) >= 1
  /\ emitted = <<>>

\* C2 (as claimed): a HandleTransform emission is computed from the current
\* position of the pointer that pressed the handle, and from it alone.
C2_HandleUsesHandlePointer ==
  (TrackedMove /\ gestureState.type = "TRANSFORM_HANDLE" /\ emitted # <<>>) =>
     /\ Len(usedPtrs) = 1
     /\ usedPtrs[1].id = downBy
     /\ FindPointer(activePointers, downBy) = usedPtrs

\* C3 (as claimed): handling a pointer-move leaves every object's zIndex as it
\* was just before the move.
C3_MoveKeepsZIndex ==
  [][ lastEvent'.kind = "move" =>
        /\ Len(items') = Len(items)
        /\ \A i \in 1..Len(items) : items'[i].zIndex = items[i].zIndex ]_vars

\* C4 (as claimed): a pointer-down on a body starts a Pinch when the registry
\* then holds exactly 2 pointers, and a Drag only when it holds exactly 1.
C4_BodyClassification ==
  (lastEvent.kind = "down" /\ lastEvent.target = "BODY") =>
     /\ gestureState.type \in {"PINCH", "DRAG"}
     /\ Len(activePointers) = 2 => gestureState.type = "PINCH"
     /\ gestureState.type = "DRAG" => Len(activePointers) = 1

\* C5: a pointer-down on the handle of a listed object starts a
\* HandleTransform on that object whatever else is in the registry, with
\* originDistance / originAngle measured from the object's screen centre
\* (container top-left + x,y) to the pointer that just went down.
C5_HandleStart ==
  (lastEvent.kind = "down" /\ lastEvent.target = "HANDLE") =>
     LET obj == FindSticker(items, lastEvent.stickerId)[1]
         p   == FindPointer(activePointers, lastEvent.pointerId)[1]
         cx  == containerRect.left + obj.x
         cy  == containerRect.top + obj.y
     IN /\ gestureState.type = "TRANSFORM_HANDLE"
        /\ gestureState.stickerId = lastEvent.stickerId
        /\ gestureState.startDist = Hypot(p.x - cx, p.y - cy)
        /\ gestureState.startAngle = Atan2(p.y - cy, p.x - cx)

\* C5 witness: the handle was pressed away from the centre while another
\* pointer, at another place, was already in the registry.
C5_Witness ==
  /\ lastEvent.kind = "down" /\ lastEvent.target = "HANDLE"
  /\ Len(activePointers) >= 2
  /\ gestureState.type = "TRANSFORM_HANDLE"
  /\ gestureState.startDist > 0
  /\ activePointers[1].id # lastEvent.pointerId
  /\ \E i \in 1..Len(activePointers) :
       /\ activePointers[i].id = lastEvent.pointerId
       /\ << activePointers[i].x, activePointers[i].y >>
            # << activePointers[1].x, activePointers[1].y >>

\* C6 (as claimed): an active snapshot holds 1 origin pointer for Drag and
\* HandleTransform, namely the pointer whose pointer-down started the gesture,
\* and 2 for Pinch.
C6_OriginPointerCount ==
  Active =>
     /\ gestureState.type \in {"DRAG", "TRANSFORM_HANDLE"} =>
          /\ Len(gestureState.startPointers) = 1
          /\ gestureState.startPointers[1].id = downBy
     /\ gestureState.type = "PINCH" => Len(gestureState.startPointers) = 2

\* C7: when a Pinch emits, the two pointers it computes from are the two
\* origin pointers, in the order used for the baseline, at their current
\* positions; a move that finds another set of pointers in the registry emits
\* nothing.
C7_PinchUsesOriginPair ==
  (TrackedMove /\ gestureState.type = "PINCH") =>
     /\ emitted # <<>> =>
          /\ Len(gestureState.startPointers) = 2
          /\ IdsOf(usedPtrs) = IdsOf(gestureState.startPointers)
          /\ usedPtrs = activePointers
     /\ IdsOf(activePointers) # IdsOf(gestureState.startPointers) =>
          emitted = <<>>

\* C7 witness: a Pinch emitted after its first origin pointer moved.
C7_Witness ==
  /\ TrackedMove
  /\ gestureState.type = "PINCH"
  /\ emitted # <<>>
  /\ << usedPtrs[1].x, usedPtrs[1].y >>
       # << gestureState.startPointers[1].x, gestureState.startPointers[1].y >>

\* C8: a Drag snapshot copies the object's transform at gesture start, and
\* every move with the origin pointer at start + (dx,dy) emits exactly
\* (x0 + dx, y0 + dy) with the snapshot's scale and rotation.
C8_DragTranslation ==
  /\ (lastEvent.kind = "down" /\ Active) =>
        gestureState.startSticker
          = FindSticker(items, gestureState.stickerId)[1]
  /\ (TrackedMove /\ gestureState.type = "DRAG") =>
        LET origin == gestureState.startPointers[1]
            cur    == FindPointer(activePointers, origin.id)
        IN cur # <<>> =>
             /\ Len(emitted) = 1
             /\ emitted[1].id = gestureState.stickerId
             /\ emitted[1].x = gestureState.startSticker.x
                                 + (cur[1].x - origin.x)
             /\ emitted[1].y = gestureState.startSticker.y
                                 + (cur[1].y - origin.y)
             /\ emitted[1].scale = gestureState.startSticker.scale
             /\ emitted[1].rotation = gestureState.startSticker.rotation

\* C8 witness: a Drag emitted a position that differs from the start in x
\* and in y, by different amounts.
C8_Witness ==
  /\ TrackedMove
  /\ gestureState.type = "DRAG"
  /\ Len(emitted) = 1
  /\ emitted[1].x # gestureState.startSticker.x
  /\ emitted[1].y # gestureState.startSticker.y
  /\ emitted[1].x - gestureState.startSticker.x
       # emitted[1].y - gestureState.startSticker.y

\* C9: every emitted transform has scale >= 0.1.
C9_ScaleFloor ==
  \A i \in 1..Len(emitted) : emitted[i].scale >= MinScale

\* C9 witness: a HandleTransform or Pinch whose current distance is 0 emitted
\* the floor value.
C9_Witness ==
  /\ TrackedMove
  /\ gestureState.type \in {"TRANSFORM_HANDLE", "PINCH"}
  /\ Len(emitted) = 1
  /\ emitted[1].scale = MinScale
  /\ gestureState.startSticker.scale > MinScale
  /\ \/ /\ gestureState.type = "PINCH"
        /\ getDistance(usedPtrs[1], usedPtrs[2]) = 0
     \/ /\ gestureState.type = "TRANSFORM_HANDLE"
        /\ usedPtrs[1].x = containerRect.left + gestureState.startSticker.x
        /\ usedPtrs[1].y = containerRect.top + gestureState.startSticker.y

C12_RetargetedGesture ==
  (Active /\ prior # NoId) =>
    /\ gestureState.stickerId # prior
    /\ lastEvent.kind = "down" =>
         /\ gestureState.stickerId = lastEvent.stickerId
         /\ FindSticker(items, lastEvent.stickerId)
              = << gestureState.startSticker >>
    /\ \A i \in 1..Len(emitted) :
         emitted[i].id = gestureState.stickerId /\ emitted[i].id # prior

C12_Witness ==
  /\ TrackedMove /\ Active /\ prior # NoId
  /\ emitted # <<>>
  /\ emitted[1].id = gestureState.stickerId
  /\ FindSticker(items, prior) # <<>>

\* C13: a pointer-cancel leaves exactly the state a pointer-up of the same
\* pointer leaves (the pointer gone from the registry, no gesture, nothing
\* else touched), and whenever every pointer that was pressed has since been
\* lifted or cancelled the registry is empty and no gesture is active.
C13_CancelIsUp ==
  [][ /\ lastEvent'.kind \in {"up", "cancel"} =>
           /\ activePointers'
                = MapDelete(activePointers, lastEvent'.pointerId)
           /\ gestureState' = NoGesture
           /\ items' = items
           /\ selectedItemId' = selectedItemId
           /\ emitted' = <<>>
      /\ held' = {} => (activePointers' = <<>> /\ gestureState' = NoGesture)
    ]_vars

C13_Witness ==
  /\ lastEvent.kind = "cancel"
  /\ lastEvent.target = "TRACKED"
  /\ held = {}
  /\ activePointers = <<>>
  /\ gestureState = NoGesture
  /\ \E i \in 1..Len(items) : items[i].x # InitialX

\* C14: from the start of a gesture until its teardown or replacement the
\* snapshot (the garment's transform at the start, the origin pointers and
\* their start positions, the start distance and the start angle) never
\* changes, whatever moves are handled and whatever the application does to
\* the live garment (emissions merged, slider changes, layer changes).
C14_SnapshotFrozen ==
  [][(Active /\ lastEvent'.kind \notin {"down", "up", "cancel"}) =>
       /\ gestureState'.startSticker = gestureState.startSticker
       /\ gestureState'.startPointers = gestureState.startPointers
       /\ gestureState'.startDist = gestureState.startDist
       /\ gestureState'.startAngle = gestureState.startAngle
       /\ gestureState' = gestureState]_vars

\* C14 witness: after a move under the snapshot, a slider or layer change
\* has made the live garment differ from the snapshot.
C14_Witness ==
  /\ Active
  /\ replay.set
  /\ lastEvent.kind \in {"slider", "layer"}
  /\ FindSticker(items, gestureState.stickerId)
       # << gestureState.startSticker >>

\* C15: handling one pointer-move causes at most one transform-change
\* callback.
C15_OneEmissionPerMove ==
  lastEvent.kind = "move" => Len(emitted) <= 1

\* C15 witness: a move with two or more pointers down emitted exactly once.
C15_Witness ==
  /\ TrackedMove
  /\ Len(activePointers) >= 2
  /\ Len(emitted) = 1

\* C16: a move handled while no gesture is active emits nothing and changes
\* nothing but the recorded position of the pointer that moved; a move of a
\* pointer that is not in the registry changes neither the registry nor the
\* gesture and emits nothing.
C16_QuietMoves ==
  [][lastEvent'.kind = "move" =>
       /\ ~MapHas(activePointers, lastEvent'.pointerId) =>
            /\ activePointers' = activePointers
            /\ gestureState' = gestureState
            /\ emitted' = <<>>
            /\ items' = items
       /\ (MapHas(activePointers, lastEvent'.pointerId)
             /\ gestureState = NoGesture) =>
            /\ emitted' = <<>>
            /\ items' = items
            /\ selectedItemId' = selectedItemId
            /\ gestureState' = NoGesture
            /\ Len(activePointers') = Len(activePointers)
            /\ \A i \in 1..Len(activePointers) :
                 /\ activePointers'[i].id = activePointers[i].id
                 /\ activePointers[i].id # lastEvent'.pointerId
                      => activePointers'[i] = activePointers[i]]_vars

\* C16 witness: a pointer outside the registry moved while a gesture was
\* active.
C16_Witness ==
  /\ lastEvent.kind = "move"
  /\ lastEvent.target = "UNTRACKED"
  /\ ~MapHas(activePointers, lastEvent.pointerId)
  /\ Active

\* C17: every emission of a handle or pinch gesture carries the x and y of the
\* snapshot's transform, wherever the pointers (and their midpoint) are.
C17_TransformKeepsPosition ==
  (TrackedMove /\ gestureState.type \in {"TRANSFORM_HANDLE", "PINCH"}) =>
    \A i \in 1..Len(emitted) :
      /\ emitted[i].x = gestureState.startSticker.x
      /\ emitted[i].y = gestureState.startSticker.y

\* C17 witness: a pinch emitted after the midpoint of its pointers drifted.
C17_Witness ==
  /\ TrackedMove
  /\ gestureState.type = "PINCH"
  /\ Len(emitted) = 1
  /\ Len(gestureState.startPointers) = 2
  /\ \/ usedPtrs[1].x + usedPtrs[2].x
          # gestureState.startPointers[1].x + gestureState.startPointers[2].x
     \/ usedPtrs[1].y + usedPtrs[2].y
          # gestureState.startPointers[1].y + gestureState.startPointers[2].y

\* C18: every pinch emission has scale max(0.1, s0 * d / d0) and rotation
\* r0 + (a - a0) in degrees, where s0, r0 are the snapshot's scale and
\* rotation, d0, a0 its start distance and angle (a zero d0 counting as one
\* pixel), and d, a are measured between the two current pointer positions
\* only: neither the garment's center nor the container's origin enters.
C18_PinchFormula ==
  (TrackedMove /\ gestureState.type = "PINCH" /\ emitted # <<>>) =>
    LET p1 == activePointers[1]
        p2 == activePointers[2]
        d  == Hypot(p2.x - p1.x, p2.y - p1.y)
        a  == Atan2(p2.y - p1.y, p2.x - p1.x)
        d0 == IF gestureState.startDist = 0 THEN DistOne
              ELSE gestureState.startDist
    IN /\ Len(activePointers) = 2
       /\ emitted[1].scale
            = Max(MinScale, (gestureState.startSticker.scale * d) \div d0)
       /\ emitted[1].rotation
            = gestureState.startSticker.rotation
                + RadToDeg(a - gestureState.startAngle)

\* C18 witness: a pinch that both scaled and turned the garment.
C18_Witness ==
  /\ TrackedMove
  /\ gestureState.type = "PINCH"
  /\ Len(emitted) = 1
  /\ gestureState.startDist > 0
  /\ emitted[1].scale # gestureState.startSticker.scale
  /\ emitted[1].rotation # gestureState.startSticker.rotation

\* C19: when the snapshot's start distance is zero (or absent) the scale
\* ratio is computed with 1 in its place, so every scale and rotation a
\* handle or pinch gesture emits is a finite number.
C19_ZeroStartDistance ==
  (TrackedMove /\ gestureState.type \in {"TRANSFORM_HANDLE", "PINCH"}
     /\ emitted # <<>>) =>
    LET s0  == gestureState.startSticker
        cur == IF gestureState.type = "PINCH"
                 THEN Hypot(usedPtrs[2].x - usedPtrs[1].x,
                            usedPtrs[2].y - usedPtrs[1].y)
                 ELSE Hypot(usedPtrs[1].x - (containerRect.left + s0.x),
                            usedPtrs[1].y - (containerRect.top + s0.y))
    IN /\ gestureState.startDist \in {0, Undefined} =>
            emitted[1].scale = Max(MinScale, (s0.scale * cur) \div DistOne)
       /\ emitted[1].scale \notin {NaN, Infinity, -Infinity}
       /\ emitted[1].rotation \notin {NaN, Infinity, -Infinity}

\* C19 witness: a gesture whose start distance is zero emitted a new scale.
C19_Witness ==
  /\ TrackedMove
  /\ gestureState.type \in {"TRANSFORM_HANDLE", "PINCH"}
  /\ gestureState.startDist = 0
  /\ Len(emitted) = 1
  /\ emitted[1].scale # gestureState.startSticker.scale

\* The angle a handle or pinch move measured: from the snapshot's center to
\* the pointer, or from the first pointer of the pair to the second.
MeasuredAngle(state, used) ==
  IF state.type = "PINCH"
    THEN Atan2(used[2].y - used[1].y, used[2].x - used[1].x)
    ELSE Atan2(used[1].y - (containerRect.top + state.startSticker.y),
               used[1].x - (containerRect.left + state.startSticker.x))

\* The turn between two directions, taken the short way round.
ShortTurn(a) ==
  IF a > Pi THEN a - 2 * Pi ELSE IF a <= -Pi THEN a + 2 * Pi ELSE a

\* C20 (as claimed): within one handle or pinch gesture the emitted rotation
\* is continuous: when the measured direction turns by a small angle between
\* two consecutive moves (here at most a sixteenth of a turn), the two
\* emitted rotations differ by that angle, also when the direction crosses
\* the +/-180 degree boundary; there is no jump of about 360 degrees.
C20_RotationContinuous ==
  [][(/\ TrackedMove /\ Len(emitted) = 1
      /\ gestureState.type \in {"TRANSFORM_HANDLE", "PINCH"}
      /\ lastEvent'.kind = "move" /\ Len(emitted') = 1
      /\ gestureState' = gestureState) =>
       LET step == ShortTurn(MeasuredAngle(gestureState, usedPtrs')
                               - MeasuredAngle(gestureState, usedPtrs))
       IN Abs(step) <= Pi \div 8 =>
            Abs(emitted'[1].rotation - emitted[1].rotation - RadToDeg(step))
              <= 2]_vars

\* C21 (as claimed): no jump at gesture start.  Whatever the gesture kind
\* and whatever the registry held at the pointer-down, when the first move
\* after the start reports every pointer where it was at the start, the
\* emitted transform is the garment's transform at the start (same x, y,
\* scale and rotation).
C21_NoJumpAtStart ==
  (/\ TrackedMove /\ Active /\ Len(emitted) = 1
   /\ replay.set /\ ~replay.other
   /\ activePointers = gestureState.startPointers) =>
    /\ emitted[1].x = gestureState.startSticker.x
    /\ emitted[1].y = gestureState.startSticker.y
    /\ emitted[1].scale = gestureState.startSticker.scale
    /\ emitted[1].rotation = gestureState.startSticker.rotation

\* Stacking order, read off the zIndex values: the place (1 = bottom) of the
\* k-th garment of the list, equal zIndex falling back on the list order as
\* the renderer does.
Rank(list, k) ==
  Cardinality({j \in 1..Len(list) :
                 \/ list[j].zIndex < list[k].zIndex
                 \/ list[j].zIndex = list[k].zIndex /\ j < k}) + 1

RankOf(list, id) == Rank(list, FindIndex(list, id))

\* zIndex values exactly 0..N-1, in ascending stacking order.
Dense(list) == \A k \in 1..Len(list) : list[k].zIndex = Rank(list, k) - 1

Listed(list, id) == \E k \in 1..Len(list) : list[k].id = id

\* The selected garment has a neighbour in the direction asked for.
InBounds(list, selected, direction) ==
  /\ Listed(list, selected)
  /\ IF direction = "up" THEN RankOf(list, selected) < Len(list)
                          ELSE RankOf(list, selected) > 1

\* C22 (as claimed): after any layer change (up or down) made while a
\* garment is selected, the zIndex values of the N garments are exactly
\* 0..N-1, in ascending stacking order.
C22_AlwaysRenumbered ==
  [][(lastEvent'.kind = "layer" /\ Listed(items, selectedItemId))
       => Dense(items')]_vars

\* C22 (amended): after a layer change that moves the selected garment (it
\* has a neighbour in the direction asked for), the zIndex values of the N
\* garments are exactly 0..N-1, in ascending stacking order; a request at
\* the top or bottom leaves the zIndex values as they were.
C22_RenumberedWhenMoved ==
  [][lastEvent'.kind = "layer" =>
       IF InBounds(items, selectedItemId, lastEvent'.target)
         THEN Dense(items') /\ Len(items') = Len(items)
         ELSE \A k \in 1..Len(items) : items'[k].zIndex = items[k].zIndex
     ]_vars

\* C22 witness: the first event of a run, a layer change, has renumbered
\* three garments that carried their upload times.
C22_Witness ==
  /\ lastEvent.kind = "layer"
  /\ events = 1
  /\ Len(items) = 3
  /\ Dense(items)

C24_OneStepSwap ==
  [][(lastEvent'.kind = "layer"
        /\ InBounds(items, selectedItemId, lastEvent'.target)) =>
       LET step == IF lastEvent'.target = "up" THEN 1 ELSE -1
           r    == RankOf(items, selectedItemId)
       IN /\ selectedItemId' = selectedItemId
          /\ Len(items') = Len(items)
          /\ RankOf(items', selectedItemId) = r + step
          /\ \A k \in 1..Len(items) :
               LET id == items[k].id
               IN /\ Listed(items', id)
                  /\ LET after == FindSticker(items', id)[1]
                     IN /\ after.x = items[k].x /\ after.y = items[k].y
                        /\ after.scale = items[k].scale
                        /\ after.rotation = items[k].rotation
                  /\ Rank(items, k) = r + step
                       => RankOf(items', id) = r
                  /\ (id # selectedItemId /\ Rank(items, k) # r + step)
                       => RankOf(items', id) = Rank(items, k)]_vars

\* C24 witness: the bottom one of three garments moved up by one place.
C24_Witness ==
  /\ lastEvent.kind = "layer" /\ lastEvent.target = "up"
  /\ events = 1
  /\ Len(items) = 3
  /\ Dense(items)
  /\ RankOf(items, selectedItemId) = 2

C26_DownSelects ==
  [][(lastEvent'.kind = "down" /\ Listed(items, lastEvent'.stickerId)) =>
       /\ selectedItemId' = lastEvent'.stickerId
       /\ Len(items') = Len(items)
       /\ \A k \in 1..Len(items) : items'[k].zIndex = items[k].zIndex
       /\ items' = items]_vars

\* C26 witness: with the second garment selected by its upload, a
\* pointer-down selected the first.
C26_Witness ==
  /\ lastEvent.kind = "down"
  /\ lastEvent.stickerId = 1
  /\ events = 3
  /\ Len(items) = 2
  /\ selectedItemId = 1

\* C27 (as claimed): whenever a gesture is active its target is the selected
\* garment, so every emission is for the selected garment, also when gesture
\* events interleave with clicks on the background, uploads and the
\* deletion of the selected garment.
C27_GestureOnSelection ==
  Active =>
    /\ gestureState.stickerId = selectedItemId
    /\ \A i \in 1..Len(emitted) : emitted[i].id = selectedItemId

\* C28: merging an emission changes only the garment whose id is the
\* emission's id; all other garments are unchanged, and an emission for a
\* garment deleted since the gesture started neither re-creates it nor
\* changes the list.
C28_EmissionFrame ==
  [][lastEvent'.kind = "move" =>
       /\ Len(items') = Len(items)
       /\ \A k \in 1..Len(items) :
            /\ items'[k].id = items[k].id
            /\ (\A i \in 1..Len(emitted') : emitted'[i].id # items[k].id)
                 => items'[k] = items[k]
       /\ (\A i \in 1..Len(emitted') : ~Listed(items, emitted'[i].id))
            => items' = items]_vars

\* C28 witness: a move emitted for a garment that was deleted during its
\* gesture, while another garment is in the list.
C28_Witness ==
  /\ TrackedMove
  /\ Len(emitted) = 1
  /\ ~Listed(items, emitted[1].id)
  /\ Len(items) = 1

\* C29: in every reachable state the selection is none or the id of a
\* garment in the list, after any sequence of uploads, selections,
\* deletions, layer changes and gestures.
C29_SelectionListed ==
  selectedItemId = NoId \/ Listed(items, selectedItemId)

\* C29 witness: one of two garments was deleted and nothing is selected.
C29_Witness ==
  /\ lastEvent.kind = "delete"
  /\ Len(items) = 1
  /\ selectedItemId = NoId
  /\ Active

\* C30: a layer request changes nothing of the application state (the order
\* of the list, every zIndex, the selection) when nothing is selected, when
\* the selected id is not in the list, or when the selected garment is
\* already at the top (for up) or at the bottom (for down).
C30_LayerNoOp ==
  [][(lastEvent'.kind = "layer"
        /\ ~InBounds(items, selectedItemId, lastEvent'.target)) =>
       /\ items' = items
       /\ selectedItemId' = selectedItemId
       /\ UNCHANGED << clock, activePointers, gestureState >>]_vars

\* C30 witness: a layer request made while the selected id was not in the
\* list.
C30_Witness ==
  /\ lastEvent.kind = "layer"
  /\ selectedItemId # NoId
  /\ ~Listed(items, selectedItemId)

\* C31: in every reachable state every garment of the list has scale >= 0.1,
\* after any sequence of uploads (scale 1), size-slider changes (0.2 at the
\* least) and Drag, HandleTransform and Pinch emissions.
C31_StoredScaleFloor ==
  \A i \in 1..Len(items) :
    /\ items[i].scale >= MinScale
    /\ items[i].scale # Infinity

\* C31 witness: the size slider had put a garment at its minimum 0.2, and a
\* HandleTransform or Pinch that started from there has stored the floor 0.1.
C31_Witness ==
  /\ TrackedMove
  /\ gestureState.type \in {"TRANSFORM_HANDLE", "PINCH"}
  /\ gestureState.startSticker.scale = 200
  /\ Len(emitted) = 1
  /\ \E i \in 1..Len(items) :
       /\ items[i].id = emitted[1].id
       /\ items[i].scale = MinScale

\* A generation runs from the click on Generate to the end of handleGenerate.
Running == awaiting # "none"

\* C32: every started generation eventually ends with isGenerating false,
\* whether building the payload or the API call succeeds or throws; while it
\* runs isGenerating is true and generatedResult is none; and generatedResult
\* becomes non-empty only when the call succeeds.
C32_GenerationEnds ==
  /\ [](Running => (isGenerating /\ generatedResult = Null))
  /\ [][(generatedResult' # Null /\ generatedResult' # generatedResult)
        => /\ awaiting = "generateTryOnImage"
           /\ ~ Running'
           /\ lastResponse' = << [imageUrl |-> generatedResult'] >>]_vars
  /\ (Running ~> (~ Running /\ ~ isGenerating))

\* C32 witness: a generation has ended with a result, whose request was
\* built from a garment list.
C32_Witness ==
  /\ ~ Running
  /\ ~ isGenerating
  /\ generatedResult # Null
  /\ lastResponse = << [imageUrl |-> generatedResult] >>
  /\ lastRequest # <<>>
  /\ lastRequest[1].stickers # <<>>

====
